---- MODULE Spec2Model ----
(***************************************************************************)
(* The churn preprocessing pipeline of preprocessing/automate_Trio_Anggoro *)
(* .py: run_preprocessing calls load_data, clean_data, select_features,    *)
(* feature_engineering, encode_data and save_data in sequence inside one   *)
(* try block with two except clauses.                                      *)
(*                                                                         *)
(* A cell of the CSV file or of the dataframe is a record                  *)
(*   [k, n, s, pad]                                                        *)
(* k = "nan"  : a null (NaN)                                               *)
(* k = "num"  : the integer n held as a number                            *)
(* k = "lit"  : a string whose text is the integer literal n               *)
(* k = "word" : a string s that is no numeric literal (s = "" is the empty *)
(*              text)                                                      *)
(* pad tells whether a string carries surrounding whitespace.              *)
(* MonthlyCharges and TotalCharges are modelled as integers; the bin edges *)
(* of pd.cut are kept exactly, scaled by Scale, so no rounding is modelled.*)
(* The output directory is taken to be writable.                           *)
(***************************************************************************)
EXTENDS Integers, Sequences, FiniteSets

VARIABLES file,    \* the input CSV on disk (or its absence)
          df,      \* the dataframe bound to df / df_processed in run_preprocessing
          pc,      \* position of run_preprocessing
          steps,   \* the pipeline functions invoked so far, in order
          stdout,  \* what was printed
          bins,    \* the bin edges pd.cut computed (scaled by Scale), <<>> before
          out      \* the written output CSV, or NoOutput

vars == <<file, df, pc, steps, stdout, bins, out>>

----------------------------------------------------------------------------
(* Bounds of the model *)

MaxRows == 3
MaxBinRows == 4
MaxCharge == 2

----------------------------------------------------------------------------
(* Cells *)

Nan == [k |-> "nan", n |-> 0, s |-> "", pad |-> FALSE]
Num(n) == [k |-> "num", n |-> n, s |-> "", pad |-> FALSE]
Lit(n) == [k |-> "lit", n |-> n, s |-> "", pad |-> FALSE]
Word(s) == [k |-> "word", n |-> 0, s |-> s, pad |-> FALSE]
Padded(c) == [c EXCEPT !.pad = TRUE]

IsStr(c) == c.k \in {"lit", "word"}
Abs(x) == IF x < 0 THEN -x ELSE x
Range(q) == {q[i] : i \in 1..Len(q)}
Without(q, x) == SelectSeq(q, LAMBDA e : e # x)

NoFrame == [columns |-> <<>>, dtypes |-> <<>>, rows |-> <<>>]
NoOutput == [written |-> FALSE, columns |-> <<>>, lines |-> <<>>]

Msg(m, c) == [msg |-> m, col |-> c]
Ok(d) == [exc |-> "", df |-> d, warn |-> <<>>]
Raise(e) == [exc |-> e, df |-> NoFrame, warn |-> <<>>]

----------------------------------------------------------------------------
(* load_data: pd.read_csv.  An empty field is read as NaN; a column whose  *)
(* other fields are all numeric literals becomes a numeric column, any     *)
(* other column an object column holding the fields' text.  A file with no *)
(* data row gives object columns.                                          *)

IsEmptyField(t) == t.k = "word" /\ t.s = "" /\ ~t.pad

InferNumeric(f, c) ==
    /\ Len(f.lines) > 0
    /\ \A i \in 1..Len(f.lines) : f.lines[i][c].k = "lit" \/ IsEmptyField(f.lines[i][c])

ReadCell(numeric, t) ==
    IF IsEmptyField(t) THEN Nan
    ELSE IF numeric THEN Num(t.n)
    ELSE t

ReadCsv(f) ==
    [columns |-> f.header,
     dtypes  |-> [c \in Range(f.header) |->
                    IF InferNumeric(f, c) THEN "number" ELSE "object"],
     rows    |-> [i \in 1..Len(f.lines) |->
                    [idx |-> i - 1,
                     cells |-> [c \in Range(f.header) |->
                                  ReadCell(InferNumeric(f, c), f.lines[i][c])]]]]

load_data(f) ==
    IF ~f.exists THEN Raise("FileNotFoundError") ELSE Ok(ReadCsv(f))

----------------------------------------------------------------------------
(* clean_data *)

\* Series.str.strip(): strings lose their surrounding whitespace, NaN stays NaN
StrStrip(c) == IF IsStr(c) THEN [c EXCEPT !.pad = FALSE] ELSE Nan

\* pd.to_numeric(..., errors='coerce'): a numeric literal parses, anything else is NaN
ToNumeric(c) ==
    IF c.k = "lit" THEN Num(c.n)
    ELSE IF c.k = "num" THEN c
    ELSE Nan

HasNull(d, r) == \E c \in Range(d.columns) : r.cells[c].k = "nan"

\* (mutant) dropna(subset=['TotalCharges']): nulls of the other columns stay
DropNaTotalChargesOnly(d) ==
    [d EXCEPT !.rows = SelectSeq(d.rows, LAMBDA r : r.cells["TotalCharges"].k # "nan")]

\* df.dropna(inplace=True): a row with a null in any column is removed
DropNa(d) == [d EXCEPT !.rows = SelectSeq(d.rows, LAMBDA r : ~HasNull(d, r))]

clean_data(d) ==
    IF "TotalCharges" \notin Range(d.columns) THEN Raise("KeyError")
    ELSE IF d.dtypes["TotalCharges"] # "object" THEN Raise("AttributeError")
    ELSE Ok(DropNa(
          [d EXCEPT !.dtypes["TotalCharges"] = "number",
                    !.rows = [i \in 1..Len(d.rows) |->
                        [d.rows[i] EXCEPT !.cells["TotalCharges"] =
                            ToNumeric(StrStrip(d.rows[i].cells["TotalCharges"]))]]]))

----------------------------------------------------------------------------
(* select_features *)

selected_columns ==
    <<"InternetService", "OnlineSecurity", "TechSupport", "Contract",
      "PaymentMethod", "SeniorCitizen", "MonthlyCharges", "Churn">>

\* df[cols]: the frame restricted to cols, in that order
Project(d, cols) ==
    [columns |-> cols,
     dtypes  |-> [c \in Range(cols) |-> d.dtypes[c]],
     rows    |-> [i \in 1..Len(d.rows) |->
                    [idx |-> d.rows[i].idx,
                     cells |-> [c \in Range(cols) |-> d.rows[i].cells[c]]]]]

\* (mutant) the projection is left out: every input column is kept
select_features_all(d) ==
    IF ~(Range(selected_columns) \subseteq Range(d.columns)) THEN Raise("KeyError")
    ELSE Ok(d)

select_features(d) ==
    IF ~(Range(selected_columns) \subseteq Range(d.columns)) THEN Raise("KeyError")
    ELSE Ok(Project(d, selected_columns))

----------------------------------------------------------------------------
(* feature_engineering: pd.cut(df['MonthlyCharges'], bins=3, labels=...)   *)

NumBins == 3
Scale == NumBins * 1000
BinLabels == <<"Rendah", "Sedang", "Tinggi">>

RECURSIVE SeqMin(_)
SeqMin(q) == IF Len(q) = 1 THEN q[1]
             ELSE LET m == SeqMin(Tail(q)) IN IF q[1] < m THEN q[1] ELSE m
RECURSIVE SeqMax(_)
SeqMax(q) == IF Len(q) = 1 THEN q[1]
             ELSE LET m == SeqMax(Tail(q)) IN IF q[1] > m THEN q[1] ELSE m

\* (mutant) the first edge is not lowered: the minimum falls outside every bin
NbinsToBinsNoAdjust(mn, mx) ==
    [i \in 1..(NumBins + 1) |-> mn * Scale + (i - 1) * (mx - mn) * 1000]

\* the NumBins + 1 edges, each multiplied by Scale.  Equal-width edges over
\* [mn, mx] with the first edge lowered by 0.1% of the range; when mn = mx the
\* range is first widened by 0.1% of |mn| (0.001 when mn = 0) on both sides.
NbinsToBins(mn, mx) ==
    IF mn = mx
    THEN LET a  == IF mn # 0 THEN Abs(mn) * NumBins ELSE NumBins
             lo == mn * Scale - a
             hi == mx * Scale + a
         IN [i \in 1..(NumBins + 1) |-> lo + (i - 1) * ((hi - lo) \div NumBins)]
    ELSE LET w   == (mx - mn) * 1000
             adj == (mx - mn) * NumBins
         IN [i \in 1..(NumBins + 1) |->
               IF i = 1 THEN mn * Scale - adj ELSE mn * Scale + (i - 1) * w]

\* the label of the right-closed interval (b[i], b[i+1]] holding v, else NaN
CutLabel(v, b) ==
    IF \E i \in 1..NumBins : b[i] < v * Scale /\ v * Scale <= b[i + 1]
    THEN Word(BinLabels[CHOOSE i \in 1..NumBins : b[i] < v * Scale /\ v * Scale <= b[i + 1]])
    ELSE Nan

ChargesOf(d) == [i \in 1..Len(d.rows) |-> d.rows[i].cells["MonthlyCharges"].n]

CutBins(d) == NbinsToBins(SeqMin(ChargesOf(d)), SeqMax(ChargesOf(d)))

\* (mutant) lines 67-68 left out: Churn is not moved to the end
BinnedColumnsNoReorder(cols) ==
    LET dropped == Without(Append(cols, "MonthlyCharges_Category"), "MonthlyCharges")
    IN [i \in 1..Len(dropped) |->
          IF dropped[i] = "MonthlyCharges_Category" THEN "MonthlyCharges" ELSE dropped[i]]

\* lines 55-68: add MonthlyCharges_Category, drop MonthlyCharges, rename the
\* new column to MonthlyCharges, move Churn to the end
BinnedColumns(cols) ==
    LET added   == Append(cols, "MonthlyCharges_Category")
        dropped == Without(added, "MonthlyCharges")
        renamed == [i \in 1..Len(dropped) |->
                      IF dropped[i] = "MonthlyCharges_Category"
                      THEN "MonthlyCharges" ELSE dropped[i]]
    IN Without(renamed, "Churn") \o <<"Churn">>

feature_engineering(d) ==
    IF d.dtypes["MonthlyCharges"] # "number" THEN Raise("TypeError")
    ELSE IF Len(d.rows) = 0 THEN Raise("ValueError")
    ELSE LET b    == CutBins(d)
             cols == BinnedColumns(d.columns)
         IN Ok([columns |-> cols,
                dtypes  |-> [c \in Range(cols) |->
                               IF c = "MonthlyCharges" THEN "category" ELSE d.dtypes[c]],
                rows    |-> [i \in 1..Len(d.rows) |->
                               [idx |-> d.rows[i].idx,
                                cells |-> [c \in Range(cols) |->
                                   IF c = "MonthlyCharges"
                                   THEN CutLabel(d.rows[i].cells[c].n, b)
                                   ELSE d.rows[i].cells[c]]]]])

----------------------------------------------------------------------------
(* encode_data *)

\* the keys of mappings in the order of the dict literal
MappedColumns ==
    <<"InternetService", "OnlineSecurity", "TechSupport", "Contract",
      "PaymentMethod", "MonthlyCharges", "Churn">>

\* mappings[col]: the labels in source order; label i is mapped to i - 1
MappingKeys(col) ==
    CASE col = "InternetService" -> <<"DSL", "Fiber optic", "No">>
      [] col = "OnlineSecurity"  -> <<"No", "No internet service", "Yes">>
      [] col = "TechSupport"     -> <<"No", "No internet service", "Yes">>
      [] col = "Contract"        -> <<"Month-to-month", "One year", "Two year">>
      [] col = "PaymentMethod"   -> <<"Bank transfer (automatic)", "Credit card (automatic)",
                                      "Electronic check", "Mailed check">>
      [] col = "MonthlyCharges"  -> <<"Rendah", "Sedang", "Tinggi">>
      [] col = "Churn"           -> <<"No", "Yes">>

IsKey(col, c) == c.k = "word" /\ ~c.pad /\ c.s \in Range(MappingKeys(col))

CodeOf(col, s) == (CHOOSE i \in 1..Len(MappingKeys(col)) : MappingKeys(col)[i] = s) - 1

\* Series.replace(mapping) on one cell: a cell equal to a key becomes its code
ReplaceCell(col, c) == IF IsKey(col, c) THEN Num(CodeOf(col, c.s)) ELSE c

\* (mutant) sklearn's LabelEncoder: a label's code is its rank among the
\* labels present in the column
EncodeColumnLabelEncoder(d, col) ==
    LET present == {d.rows[i].cells[col].s : i \in 1..Len(d.rows)}
        rank(c) == Cardinality({k \in 1..Len(MappingKeys(col)) :
                                  /\ MappingKeys(col)[k] \in present
                                  /\ k <= CodeOf(col, c.s)})
    IN [df   |-> [d EXCEPT
                    !.rows = [i \in 1..Len(d.rows) |->
                                [d.rows[i] EXCEPT !.cells[col] =
                                    IF IsKey(col, @) THEN Num(rank(@)) ELSE @]]],
        warn |-> <<Msg("Mapping kolom", col)>>]

\* (mutant) a failed conversion blanks the cells it cannot convert
EncodeColumnCoerce(d, col) ==
    LET rep == [i \in 1..Len(d.rows) |-> ReplaceCell(col, d.rows[i].cells[col])]
    IN [df   |-> [d EXCEPT
                    !.dtypes[col] = "number",
                    !.rows = [i \in 1..Len(d.rows) |->
                                [d.rows[i] EXCEPT !.cells[col] =
                                    IF rep[i].k \in {"num", "lit"} THEN Num(rep[i].n) ELSE Nan]]],
        warn |-> <<Msg("Mapping kolom", col)>>]

\* int(x) is defined for a number and for a string holding an integer literal
IntOk(c) == c.k \in {"num", "lit"}

\* lines 123-129 for one column: replace, then astype(int) inside try/except
\* ValueError.  When the conversion fails the column keeps the replaced values.
EncodeColumn(d, col) ==
    LET rep  == [i \in 1..Len(d.rows) |-> ReplaceCell(col, d.rows[i].cells[col])]
        conv == \A i \in 1..Len(rep) : IntOk(rep[i])
    IN [df   |-> [d EXCEPT
                    !.dtypes[col] = IF conv THEN "number" ELSE "object",
                    !.rows = [i \in 1..Len(d.rows) |->
                                [d.rows[i] EXCEPT !.cells[col] =
                                    IF conv THEN Num(rep[i].n) ELSE rep[i]]]],
        warn |-> <<Msg("Mapping kolom", col)>> \o
                 (IF conv THEN <<>> ELSE <<Msg("Warning: Gagal convert ke int", col)>>)]

\* the loop over mappings.items(), columns absent from df skipped.  An
\* iteration reads and assigns df[col] alone, so the frame after the loop
\* holds, for each mapped column, what its own iteration assigned.
RECURSIVE LoopOutput(_, _)
LoopOutput(d, k) ==
    IF k > Len(MappedColumns) THEN <<>>
    ELSE (IF MappedColumns[k] \in Range(d.columns)
          THEN EncodeColumn(d, MappedColumns[k]).warn ELSE <<>>) \o LoopOutput(d, k + 1)

EncodeLoop(d) ==
    LET visited == Range(MappedColumns) \cap Range(d.columns)
    IN [exc  |-> "",
        df   |-> [columns |-> d.columns,
                  dtypes  |-> [c \in Range(d.columns) |->
                                 IF c \in visited THEN EncodeColumn(d, c).df.dtypes[c]
                                 ELSE d.dtypes[c]],
                  rows    |-> [i \in 1..Len(d.rows) |->
                                 [idx |-> d.rows[i].idx,
                                  cells |-> [c \in Range(d.columns) |->
                                     IF c \in visited
                                     THEN EncodeColumn(d, c).df.rows[i].cells[c]
                                     ELSE d.rows[i].cells[c]]]]],
        warn |-> LoopOutput(d, 1)]

\* (mutant) the table has one more entry, SeniorCitizen: {'No': 0, 'Yes': 1}
encode_data_senior(d) ==
    LET r == EncodeLoop(d)
    IN [r EXCEPT !.df.rows = [i \in 1..Len(r.df.rows) |->
            [r.df.rows[i] EXCEPT !.cells["SeniorCitizen"] =
                IF @.k = "word" THEN Num(IF @.s = "Yes" THEN 1 ELSE 0) ELSE @]]]

encode_data(d) == EncodeLoop(d)

----------------------------------------------------------------------------
(* save_data: df.to_csv(output_path, index=False) *)

save_data(d) ==
    [written |-> TRUE,
     columns |-> d.columns,
     lines   |-> [i \in 1..Len(d.rows) |-> d.rows[i].cells]]

----------------------------------------------------------------------------
(* The input files *)

AllCols ==
    <<"customerID", "SeniorCitizen", "InternetService", "OnlineSecurity",
      "TechSupport", "Contract", "PaymentMethod", "MonthlyCharges",
      "TotalCharges", "Churn">>

Unmapped == <<Word("Other"), Lit(7)>>

\* what a categorical field of a file may hold: each key of the column's
\* mapping, a label the mapping lacks, and an integer literal
LabelChoices(col) ==
    [i \in 1..Len(MappingKeys(col)) |-> Word(MappingKeys(col)[i])] \o Unmapped

NumLabelChoices == Len(LabelChoices("PaymentMethod"))

\* choice l picks, in every categorical column, field l of its choices (wrapping)
LabelAt(col, l) == LabelChoices(col)[(l % Len(LabelChoices(col))) + 1]

MkLine(tc, mc, l, sc, os) ==
    [c \in Range(AllCols) |->
        CASE c = "customerID"     -> Word("id")
          [] c = "SeniorCitizen"  -> sc
          [] c = "MonthlyCharges" -> mc
          [] c = "TotalCharges"   -> tc
          [] c = "OnlineSecurity" -> IF os THEN LabelAt(c, l) ELSE Word("")
          [] OTHER                -> LabelAt(c, l)]

Blank == Padded(Word(""))
BlankLine == MkLine(Blank, Lit(1), 0, Lit(0), TRUE)

\* TotalCharges varied: literal, padded literal, whitespace only, a word, empty;
\* a null in another column; a MonthlyCharges that is no number
CleanLines ==
    {MkLine(tc, Lit(1), 0, Lit(0), TRUE) :
        tc \in {Lit(5), Padded(Lit(7)), Blank, Word("abc"), Word("")}}
    \cup {MkLine(Lit(5), Lit(1), 0, Lit(0), FALSE),
          MkLine(Lit(5), Word("x"), 0, Lit(0), TRUE)}

\* MonthlyCharges varied
BinLines ==
    {MkLine(Lit(5), Lit(m), 0, Lit(0), TRUE) : m \in (-1)..MaxCharge} \cup {BlankLine}

\* the categorical fields and SeniorCitizen varied
EncLines ==
    {MkLine(Lit(5), Lit(1), l, Lit(l % 2), TRUE) : l \in 0..(NumLabelChoices - 1)}
    \cup {MkLine(Lit(5), Lit(1), 1, Word("Yes"), TRUE), BlankLine}

Restrict(line, cols) == [c \in Range(cols) |-> line[c]]

MkFile(header, lines) ==
    [exists |-> TRUE, header |-> header,
     lines |-> [i \in 1..Len(lines) |-> Restrict(lines[i], header)]]

MissingFile == [exists |-> FALSE, header |-> <<>>, lines |-> <<>>]

\* the file is a sequence of at most n lines of S under the given header
FileOf(f, header, S, n) ==
    \E m \in 0..n : \E ls \in [1..m -> S] : f = MkFile(header, ls)

IsInput(f) ==
    \/ f = MissingFile
    \/ FileOf(f, AllCols, CleanLines, MaxRows)
    \/ FileOf(f, AllCols, EncLines, MaxRows)
    \/ FileOf(f, AllCols, BinLines, MaxBinRows)
    \/ \E c \in {"TotalCharges", "Contract"} :
          FileOf(f, Without(AllCols, c),
                 {BlankLine, MkLine(Lit(5), Lit(1), 0, Lit(0), TRUE)}, MaxRows)

----------------------------------------------------------------------------
(* run_preprocessing *)

Init ==
    /\ IsInput(file)
    /\ df = NoFrame
    /\ pc = "load"
    /\ steps = <<>>
    /\ stdout = <<>>
    /\ bins = <<>>
    /\ out = NoOutput

\* (mutant) the exception is swallowed and the run goes on to save
HandlerFallThrough(e) == "save"

\* the classes the functions above raise, all subclasses of Exception
ExceptionClasses ==
    {"FileNotFoundError", "KeyError", "AttributeError", "TypeError", "ValueError"}

\* the except clause an exception raised inside the try block reaches; what
\* neither clause catches leaves run_preprocessing
Handler(e) ==
    IF e = "FileNotFoundError" THEN "except_fnf"
    ELSE IF e \in ExceptionClasses THEN "except_any"
    ELSE "propagated"

\* a step of the try block: r is what the called function did, next the
\* position after it
Step(name, banner, r, next) ==
    /\ steps' = Append(steps, name)
    /\ stdout' = stdout \o <<Msg(banner, "")>> \o r.warn
    /\ IF r.exc = ""
       THEN df' = r.df /\ pc' = next
       ELSE df' = df /\ pc' = Handler(r.exc)
    /\ UNCHANGED <<file, out>>

Load ==
    /\ pc = "load"
    /\ Step("load", "Memuat data", load_data(file), "clean")
    /\ UNCHANGED bins

\* (mutant) select_features is not called
CleanThenBin ==
    /\ pc = "clean"
    /\ Step("clean", "Membersihkan data", clean_data(df), "bin")
    /\ UNCHANGED bins

Clean ==
    /\ pc = "clean"
    /\ Step("clean", "Membersihkan data", clean_data(df), "select")
    /\ UNCHANGED bins

Select ==
    /\ pc = "select"
    /\ Step("select", "Melakukan seleksi fitur", select_features(df), "bin")
    /\ UNCHANGED bins

Bin ==
    /\ pc = "bin"
    /\ Step("bin", "Melakukan Feature Engineering (Binning)", feature_engineering(df), "encode")
    /\ bins' = IF feature_engineering(df).exc = "" THEN CutBins(df) ELSE bins

Encode ==
    /\ pc = "encode"
    /\ Step("encode", "Melakukan Encoding data menggunakan Mapping", encode_data(df), "save")
    /\ UNCHANGED bins

Save ==
    /\ pc = "save"
    /\ steps' = Append(steps, "save")
    /\ out' = save_data(df)
    /\ stdout' = stdout \o <<Msg("Menyimpan data hasil preprocessing", ""),
                             Msg("Proses selesai!", "")>>
    /\ pc' = "done"
    /\ UNCHANGED <<file, df, bins>>

HandleFileNotFound ==
    /\ pc = "except_fnf"
    /\ stdout' = Append(stdout, Msg("Error: File dataset tidak ditemukan", ""))
    /\ pc' = "done"
    /\ UNCHANGED <<file, df, steps, bins, out>>

HandleException ==
    /\ pc = "except_any"
    /\ stdout' = Append(stdout, Msg("Terjadi kesalahan", ""))
    /\ pc' = "done"
    /\ UNCHANGED <<file, df, steps, bins, out>>

Next ==
    \/ Load
    \/ Clean
    \/ Select
    \/ Bin
    \/ Encode
    \/ Save
    \/ HandleFileNotFound
    \/ HandleException

Spec == Init /\ [][Next]_vars

----------------------------------------------------------------------------
(* Vocabulary of the properties *)

Pipeline == <<"load", "clean", "select", "bin", "encode", "save">>

\* the line of the input file a dataframe row was read from
LineOf(r) == file.lines[r.idx + 1]

\* the input line holds no empty field and its TotalCharges, whitespace
\* stripped, is a numeric literal
ParsesAsNumber(t) == t.k = "lit"
Complete(line) == \A c \in DOMAIN line : ~IsEmptyField(line[c])
Survives(line) == Complete(line) /\ ParsesAsNumber(line["TotalCharges"])

Indexes(d) == [j \in 1..Len(d.rows) |-> d.rows[j].idx]

RECURSIVE Survivors(_)
Survivors(i) ==
    IF i > Len(file.lines) THEN <<>>
    ELSE (IF Survives(file.lines[i]) THEN <<i - 1>> ELSE <<>>) \o Survivors(i + 1)

Codomain(col) == 0..(Len(MappingKeys(col)) - 1)

\* encode_data has returned and df holds its result
AfterEncode == pc = "save" \/ out.written

----------------------------------------------------------------------------
(* C1: after encode_data every cell of every mapped column is an integer   *)
(* of that column's mapping codomain, whatever labels the input held.      *)
C1_MappedCellsInCodomain ==
    AfterEncode =>
        \A j \in 1..Len(df.rows) : \A col \in Range(MappedColumns) :
            /\ df.rows[j].cells[col].k = "num"
            /\ df.rows[j].cells[col].n \in Codomain(col)

----------------------------------------------------------------------------
(* C2: after clean_data every input row is either kept, with TotalCharges  *)
(* the number its stripped text parses to, or removed; and no kept row has *)
(* a null in any column.                                                   *)
C2_CleanKeepsParsedOrRemoves ==
    pc = "select" =>
        /\ \A i \in 1..Len(file.lines) :
              \/ \E j \in 1..Len(df.rows) :
                    /\ df.rows[j].idx = i - 1
                    /\ ParsesAsNumber(file.lines[i]["TotalCharges"])
                    /\ df.rows[j].cells["TotalCharges"] = Num(file.lines[i]["TotalCharges"].n)
              \/ \A j \in 1..Len(df.rows) : df.rows[j].idx # i - 1
        /\ \A j \in 1..Len(df.rows) : \A c \in Range(df.columns) :
              df.rows[j].cells[c].k # "nan"

\* clean_data returned having kept a row whose TotalCharges was padded,
\* removed a row for its TotalCharges and removed one for a null elsewhere
C2_Witness ==
    /\ pc = "select"
    /\ \E j \in 1..Len(df.rows) : LineOf(df.rows[j])["TotalCharges"].pad
    /\ \E i \in 1..Len(file.lines) :
          /\ ~ParsesAsNumber(file.lines[i]["TotalCharges"])
          /\ i - 1 \notin Range(Indexes(df))
    /\ \E i \in 1..Len(file.lines) :
          /\ ParsesAsNumber(file.lines[i]["TotalCharges"])
          /\ i - 1 \notin Range(Indexes(df))

----------------------------------------------------------------------------
(* C3: the written output holds exactly the input rows that survive the    *)
(* cleaning, in input order; select_features, feature_engineering and      *)
(* encode_data neither add, remove nor reorder rows; the output columns    *)
(* are the selected columns with Churn last.                               *)
C3_OutputRowsAndColumns ==
    [][ /\ (pc \in {"select", "bin", "encode"} /\ pc' \in {"bin", "encode", "save"})
            => Indexes(df') = Indexes(df)
        /\ out'.written =>
            /\ Indexes(df') = Survivors(1)
            /\ Len(out'.lines) = Len(df'.rows)
            /\ \A j \in 1..Len(out'.lines) :
                  /\ out'.lines[j] = df'.rows[j].cells
                  /\ out'.lines[j]["SeniorCitizen"].n = LineOf(df'.rows[j])["SeniorCitizen"].n
                  /\ out'.lines[j]["SeniorCitizen"].s = LineOf(df'.rows[j])["SeniorCitizen"].s
            /\ Range(out'.columns) = Range(selected_columns)
            /\ Len(out'.columns) = Len(selected_columns)
            /\ out'.columns[Len(out'.columns)] = "Churn" ]_vars

\* an output of two rows written from an input that lost a row in between
C3_Witness ==
    /\ out.written
    /\ Len(out.lines) = 2
    /\ Len(file.lines) = 3
    /\ ~Survives(file.lines[2])

----------------------------------------------------------------------------
(* C4: from select_features on, through feature_engineering and           *)
(* encode_data, the columns are exactly the eight selected ones.           *)
C4_ExactlyEightColumns ==
    (pc \in {"bin", "encode", "save"} \/ out.written) =>
        /\ Range(df.columns) = Range(selected_columns)
        /\ Len(df.columns) = Cardinality(Range(selected_columns))
        /\ Cardinality(Range(selected_columns)) = 8
        /\ \A j \in 1..Len(df.rows) : DOMAIN df.rows[j].cells = Range(selected_columns)
        /\ out.written => out.columns = df.columns

\* encode_data returned on an input that had two more columns
C4_Witness ==
    /\ pc = "save"
    /\ {"customerID", "TotalCharges"} \subseteq Range(file.header)
    /\ Len(df.rows) > 0

----------------------------------------------------------------------------
(* C5 vocabulary: the numeric MonthlyCharges a row was binned from *)

Charge(r) == LineOf(r)["MonthlyCharges"].n
Charges == [j \in 1..Len(df.rows) |-> Charge(df.rows[j])]
Category(r) == r.cells["MonthlyCharges"]
IsBinLabel(c) == c.k = "word" /\ c.s \in Range(BinLabels)
LabelIndex(c) == CHOOSE i \in 1..NumBins : BinLabels[i] = c.s

AllLabelled == \A j \in 1..Len(df.rows) : IsBinLabel(Category(df.rows[j]))

LabelMonotone ==
    \A j, k \in 1..Len(df.rows) :
        Charge(df.rows[j]) <= Charge(df.rows[k])
            => LabelIndex(Category(df.rows[j])) <= LabelIndex(Category(df.rows[k]))

\* the inner edges cut [min, max] into three intervals of one width
EqualThirds ==
    LET lo == SeqMin(Charges) * Scale
        hi == SeqMax(Charges) * Scale
    IN /\ bins[2] - lo = bins[3] - bins[2]
       /\ bins[3] - bins[2] = hi - bins[3]

\* a row's label is the one of the interval its value lies in
LabelsFollowEdges ==
    \A j \in 1..Len(df.rows) :
        LET v == Charge(df.rows[j]) * Scale
            i == LabelIndex(Category(df.rows[j]))
        IN /\ i = 1 <=> v <= bins[2]
           /\ i = 3 <=> v > bins[3]

(* C5 as stated: after feature_engineering every row carries one of the   *)
(* three labels, the label is monotone in the value, and the inner edges   *)
(* cut the observed range into three equal widths.                         *)
C5_Original ==
    pc = "encode" => AllLabelled /\ LabelMonotone /\ EqualThirds

(* C5 amended: every row is labelled and the label is monotone and follows *)
(* the edges; the inner edges cut [min, max] into three equal widths when  *)
(* the rows hold at least two distinct values; when they hold one value,   *)
(* the edges are spread around it and every row is labelled Sedang.        *)
C5_BinningAmended ==
    pc = "encode" =>
        /\ Len(df.rows) > 0
        /\ AllLabelled
        /\ LabelMonotone
        /\ LabelsFollowEdges
        /\ SeqMin(Charges) < SeqMax(Charges) =>
              /\ EqualThirds
              /\ \A j \in 1..Len(df.rows) :
                    /\ Charge(df.rows[j]) = SeqMin(Charges) => Category(df.rows[j]).s = "Rendah"
                    /\ Charge(df.rows[j]) = SeqMax(Charges) => Category(df.rows[j]).s = "Tinggi"
        /\ SeqMin(Charges) = SeqMax(Charges) =>
              /\ ~EqualThirds
              /\ bins[2] < SeqMin(Charges) * Scale /\ SeqMin(Charges) * Scale < bins[3]
              /\ \A j \in 1..Len(df.rows) : Category(df.rows[j]).s = "Sedang"

\* feature_engineering returned a frame in which all three labels occur
C5_Witness ==
    /\ pc = "encode"
    /\ {Category(df.rows[j]).s : j \in 1..Len(df.rows)} = Range(BinLabels)

----------------------------------------------------------------------------
(* C6: encode_data gives a label of a mapped column the integer the table  *)
(* fixes for it, whatever other labels and rows the dataset holds: the     *)
(* code is a function of column and label alone, so two runs agree.        *)
C6_CodeDependsOnLabelOnly ==
    [][ pc = "encode" =>
          \A j \in 1..Len(df.rows) : \A col \in Range(MappedColumns) :
              IsKey(col, df.rows[j].cells[col]) =>
                  df'.rows[j].cells[col] = Num(CodeOf(col, df.rows[j].cells[col].s)) ]_vars

\* 'No' was encoded to 2 in a dataset that holds no 'DSL' row and holds a
\* label the table lacks in the same column
C6_Witness ==
    /\ pc = "save"
    /\ \E j \in 1..Len(df.rows) :
          /\ LineOf(df.rows[j])["InternetService"] = Word("No")
          /\ df.rows[j].cells["InternetService"] = Num(2)
    /\ \A j \in 1..Len(df.rows) : LineOf(df.rows[j])["InternetService"] # Word("DSL")
    /\ \E j \in 1..Len(df.rows) : df.rows[j].cells["InternetService"].k = "word"

----------------------------------------------------------------------------
(* C7 vocabulary *)

IsError(m) == m.msg \in {"Error: File dataset tidak ditemukan", "Terjadi kesalahan"}
Errors == SelectSeq(stdout, IsError)
Raised == pc \in {"except_fnf", "except_any"} \/ Len(Errors) > 0

\* what the function called at pc does on the current state
Outcome ==
    CASE pc = "load"   -> load_data(file)
      [] pc = "clean"  -> clean_data(df)
      [] pc = "select" -> select_features(df)
      [] pc = "bin"    -> feature_engineering(df)
      [] pc = "encode" -> encode_data(df)
      [] OTHER         -> Ok(df)

\* the statements still ahead of a position: every step lowers it
Rank(p) ==
    CASE p = "done" -> 0
      [] p \in {"except_fnf", "except_any"} -> 1
      [] OTHER -> 2 + Cardinality({i \in 1..Len(Pipeline) : i > Len(steps)})

C7_Safety ==
    /\ pc \in Range(Pipeline) \cup {"except_fnf", "except_any", "done"}
    /\ Len(Errors) <= 1
    /\ \A i, j \in 1..Len(steps) : steps[i] = steps[j] => i = j
    /\ Raised =>
          /\ "save" \notin Range(steps)
          /\ out = NoOutput
          /\ Len(steps) < Len(Pipeline)
    /\ pc = "done" =>
          /\ (Len(Errors) = 1) # out.written
          /\ Len(Errors) = 1 => IsError(stdout[Len(stdout)])

----------------------------------------------------------------------------
(* C8: the steps run in the order load, clean, select, bin, encode, save,  *)
(* each at most once, each only after the ones before it succeeded; what   *)
(* save_data writes has passed through the five earlier steps.             *)
C8_FixedOrder ==
    /\ Len(steps) <= Len(Pipeline)
    /\ steps = SubSeq(Pipeline, 1, Len(steps))
    /\ pc \in Range(Pipeline) => (pc = Pipeline[Len(steps) + 1] /\ Len(Errors) = 0 /\ ~Raised)
    /\ out.written => (steps = Pipeline /\ Len(Errors) = 0)

\* a run that went through all six steps
C8_Witness == pc = "done" /\ out.written /\ steps = Pipeline

----------------------------------------------------------------------------
(* C9 vocabulary *)

Warned(o, col) ==
    Cardinality({i \in 1..Len(o) : o[i] = Msg("Warning: Gagal convert ke int", col)})
Mapped(o, col) == \E i \in 1..Len(o) : o[i] = Msg("Mapping kolom", col)

\* the column holds a label its mapping lacks / one that int() rejects too
HasAbsent(d, col) == \E j \in 1..Len(d.rows) : ~IsKey(col, d.rows[j].cells[col])
HasUnparsable(d, col) ==
    \E j \in 1..Len(d.rows) :
        ~IsKey(col, d.rows[j].cells[col]) /\ d.rows[j].cells[col].k \notin {"num", "lit"}

\* what the claim says of a column: its unmapped cells are kept, one warning
\* is printed, the column is not fully integer, every mapped column is visited
KeptWithWarning(col) ==
    /\ pc' = "save"
    /\ \A j \in 1..Len(df.rows) :
          ~IsKey(col, df.rows[j].cells[col]) => df'.rows[j].cells[col] = df.rows[j].cells[col]
    /\ Warned(stdout', col) = 1
    /\ \E j \in 1..Len(df'.rows) : df'.rows[j].cells[col].k # "num"
    /\ \A c \in Range(MappedColumns) : Mapped(stdout', c)

SaveWritesFrame == pc = "save" => (out'.written /\ out'.lines = [j \in 1..Len(df.rows) |-> df.rows[j].cells])

(* C9 as stated: a label absent from the mapping is kept, with a warning.  *)
C9_Original ==
    [][ /\ pc = "encode" =>
              \A col \in Range(MappedColumns) : HasAbsent(df, col) => KeptWithWarning(col)
        /\ SaveWritesFrame ]_vars

(* C9 amended: a column holding an absent label that int() rejects keeps   *)
(* its unmapped cells, with one warning, and is saved so; a column whose   *)
(* absent labels are all integers or integer literals is converted to      *)
(* those integers and no warning is printed.                               *)
C9_UnparsableLabelKept ==
    [][ /\ pc = "encode" =>
              \A col \in Range(MappedColumns) :
                  /\ HasUnparsable(df, col) => KeptWithWarning(col)
                  /\ ~HasUnparsable(df, col) =>
                        /\ Warned(stdout', col) = 0
                        /\ \A j \in 1..Len(df.rows) :
                              ~IsKey(col, df.rows[j].cells[col])
                                  => df'.rows[j].cells[col] = Num(df.rows[j].cells[col].n)
        /\ SaveWritesFrame ]_vars

\* an output written with InternetService holding an unmapped word, after a
\* warning for it, and Churn, a later column, converted
C9_Witness ==
    /\ out.written
    /\ Warned(stdout, "InternetService") = 1
    /\ \E j \in 1..Len(out.lines) : out.lines[j]["InternetService"].k = "word"
    /\ Len(out.lines) > 1
    /\ \A j \in 1..Len(out.lines) : out.lines[j]["Churn"].k = "num"

----------------------------------------------------------------------------
(* C10: feature_engineering and encode_data leave SeniorCitizen as it was  *)
(* read, encode_data changes no cell of a column without a mapping, and    *)
(* encode_data applied to its own result changes nothing.                  *)
C10_FrameAndIdempotence ==
    [][ /\ (pc \in {"bin", "encode"} /\ pc' \in {"encode", "save"}) =>
              \A j \in 1..Len(df.rows) :
                  \A c \in Range(df'.columns) \ (IF pc = "encode" THEN Range(MappedColumns)
                                                                  ELSE {"MonthlyCharges"}) :
                      df'.rows[j].cells[c] = df.rows[j].cells[c]
        /\ pc' = "save" => encode_data(df').df = df'
        /\ out'.written =>
              \A j \in 1..Len(out'.lines) :
                  out'.lines[j]["SeniorCitizen"] =
                      ReadCsv(file).rows[df'.rows[j].idx + 1].cells["SeniorCitizen"] ]_vars

\* an output whose SeniorCitizen column holds a word next to a number literal
C10_Witness ==
    /\ out.written
    /\ \E j \in 1..Len(out.lines) : out.lines[j]["SeniorCitizen"] = Word("Yes")
    /\ \E j \in 1..Len(out.lines) : out.lines[j]["SeniorCitizen"].k = "lit"

====
